---- MODULE Spec2Model ----
(***************************************************************************)
(* Model of backend/services/scene_generator.py: one invocation of         *)
(* generate_scene_description, from the extraction of the context fields   *)
(* through build_scene_generator_prompt, the chat-completion request, the  *)
(* split of the returned text and the exception fallback.                  *)
(*                                                                         *)
(* Python strings are sequences of one-character strings, so that strip,   *)
(* split, join, endswith, capitalize and the f-strings are computed the    *)
(* way the interpreter computes them.  A mapping (dict) is a function      *)
(* whose DOMAIN is the set of keys that are present.  An object that may   *)
(* be None is carried as Some(v) or None.                                  *)
(***************************************************************************)
EXTENDS Integers, Sequences, FiniteSets, TLC

(***************************************************************************)
(* Bounds of the model.                                                    *)
(***************************************************************************)
\* longest returned text enumerated exhaustively over Alphabet
MaxLen == 4
\* character levels enumerated: MinLevel .. MaxLevel
MaxLevel == 10
\* longest list of quest hooks / products / early signs enumerated
MaxList == 4

(***************************************************************************)
(* Python values and the str / dict methods the source calls.              *)
(***************************************************************************)
None == <<>>

Some(v) == <<v>>

IsNone(o) == Len(o) = 0

Value(o) == o[1]

\* dict.get(key, default)
Get(m, key, default) == IF key \in DOMAIN m THEN m[key] ELSE default

\* the characters str.strip() removes
Whitespace == {" ", "\n", "\t", "\r"}

RECURSIVE LStrip(_)
LStrip(s) == IF s # <<>> /\ Head(s) \in Whitespace THEN LStrip(Tail(s)) ELSE s

RECURSIVE RStrip(_)
RStrip(s) ==
    IF s # <<>> /\ s[Len(s)] \in Whitespace THEN RStrip(SubSeq(s, 1, Len(s) - 1)) ELSE s

\* strip() that leaves the trailing white space
Strip_LeftOnly(s) == LStrip(s)

\* str.strip()
Strip(s) == RStrip(LStrip(s))

\* s.startswith(sep) at offset i (1-based)
MatchAt(s, sep, i) ==
    /\ i + Len(sep) - 1 <= Len(s)
    /\ \A k \in 1..Len(sep) : s[i + k - 1] = sep[k]

\* str.find(sep): the first offset where sep occurs, 0 when it does not
Find(s, sep) ==
    LET hits == {i \in 1..Len(s) : MatchAt(s, sep, i)}
    IN  IF hits = {} THEN 0 ELSE CHOOSE i \in hits : \A j \in hits : i <= j

\* str.split(sep): left to right, non-overlapping; "" splits into [""]
RECURSIVE Split(_, _)
Split(s, sep) ==
    LET i == Find(s, sep)
    IN  IF i = 0
        THEN <<s>>
        ELSE <<SubSeq(s, 1, i - 1)>> \o Split(SubSeq(s, i + Len(sep), Len(s)), sep)

\* sep.join(parts)
RECURSIVE Join(_, _)
Join(parts, sep) ==
    IF parts = <<>> THEN <<>>
    ELSE IF Len(parts) = 1 THEN parts[1]
    ELSE parts[1] \o sep \o Join(Tail(parts), sep)

\* s.endswith(suffix)
EndsWith(s, suffix) ==
    /\ Len(suffix) <= Len(s)
    /\ SubSeq(s, Len(s) - Len(suffix) + 1, Len(s)) = suffix

\* list[:n] that keeps one entry too many
Take_OneMore(list, n) == SubSeq(list, 1, IF Len(list) < n + 1 THEN Len(list) ELSE n + 1)

\* list[:n]
Take(list, n) == SubSeq(list, 1, IF Len(list) < n THEN Len(list) ELSE n)

\* the whole list where list[:-1] was meant
AllButLast_WholeList(list) == list

\* list[:-1]
AllButLast(list) == SubSeq(list, 1, Len(list) - 1)

\* list[-1]
Last(list) == list[Len(list)]

Lowercase == <<"a","b","c","d","e","f","g","h","i","j","k","l","m",
               "n","o","p","q","r","s","t","u","v","w","x","y","z">>

Uppercase == <<"A","B","C","D","E","F","G","H","I","J","K","L","M",
               "N","O","P","Q","R","S","T","U","V","W","X","Y","Z">>

IndexIn(alphabet, c) ==
    IF \E i \in 1..Len(alphabet) : alphabet[i] = c
    THEN CHOOSE i \in 1..Len(alphabet) : alphabet[i] = c
    ELSE 0

Upper(c) == IF IndexIn(Lowercase, c) = 0 THEN c ELSE Uppercase[IndexIn(Lowercase, c)]

Lower(c) == IF IndexIn(Uppercase, c) = 0 THEN c ELSE Lowercase[IndexIn(Uppercase, c)]

\* str.capitalize(): first character upper-cased, the rest lower-cased
Capitalize(s) ==
    [i \in 1..Len(s) |-> IF i = 1 THEN Upper(s[i]) ELSE Lower(s[i])]

Digits == <<"0","1","2","3","4","5","6","7","8","9">>

\* format(n) of an int inside an f-string: decimal digits, "-" when negative
RECURSIVE NatToStr(_)
NatToStr(n) == IF n < 10 THEN <<Digits[n + 1]>> ELSE NatToStr(n \div 10) \o <<Digits[(n % 10) + 1]>>

IntToStr(n) == IF n < 0 THEN <<"-">> \o NatToStr(0 - n) ELSE NatToStr(n)

(***************************************************************************)
(* String literals of the source.                                          *)
(***************************************************************************)
DEFAULT_NAME == <<"U","n","k","n","o","w","n">>
DEFAULT_ROLE == <<"s","e","t","t","l","e","m","e","n","t">>
DEFAULT_SUMMARY == <<"A"," ","m","y","s","t","e","r","i","o","u","s"," ","p","l","a","c","e">>
DEFAULT_CHARACTER_NAME == <<"A","d","v","e","n","t","u","r","e","r">>
DEFAULT_BACKGROUND == <<"w","a","n","d","e","r","e","r">>
DEFAULT_CLASS == <<"u","n","k","n","o","w","n">>
DEFAULT_TIME_OF_DAY == <<"m","i","d","d","a","y">>
DEFAULT_WEATHER == <<"c","l","e","a","r">>
DEFAULT_HOOK_TYPE == <<"c","o","n","v","e","r","s","a","t","i","o","n">>
DEFAULT_PRODUCTS_TEXT == <<"v","a","r","i","o","u","s"," ","g","o","o","d","s">>
MODEL_NAME == <<"g","p","t","-","4","o","-","m","i","n","i">>
USER_PREFIX ==
    <<"G","e","n","e","r","a","t","e"," ","s","c","e","n","e"," ","d","e","s","c","r","i","p",
      "t","i","o","n"," ","f","o","r"," ">>
USER_AT == <<" ","a","t"," ">>
SENTENCE_SEP == <<"."," ">>
PERIOD == <<".">>
PRODUCT_SEP == <<","," ">>
NEWLINE == <<"\n">>
ARRIVE_PREFIX == <<"Y","o","u"," ","a","r","r","i","v","e"," ","i","n"," ">>
ARRIVE_SUFFIX ==
    <<","," ","r","e","a","d","y"," ","f","o","r"," ","w","h","a","t","e","v","e","r"," ","a",
      "w","a","i","t","s",".">>
FALLBACK_PREFIX ==
    <<"Y","o","u"," ","h","a","v","e"," ","a","r","r","i","v","e","d"," ","i","n"," ">>
FALLBACK_SUFFIX ==
    <<" ","s","e","e","k","i","n","g"," ","a","d","v","e","n","t","u","r","e"," ","a","n","d",
      " ","f","o","r","t","u","n","e","."," ","T","h","e"," ","w","o","r","l","d"," ","a","w",
      "a","i","t","s"," ","y","o","u","r"," ","c","h","o","i","c","e","s",".">>
INEXPERIENCED == <<"i","n","e","x","p","e","r","i","e","n","c","e","d">>
SEASONED == <<"s","e","a","s","o","n","e","d">>
LEGENDARY == <<"l","e","g","e","n","d","a","r","y">>
WANTED_YES ==
    <<"Y","E","S"," ","-"," ","g","u","a","r","d","s"," ","w","a","t","c","h","i","n","g">>
WANTED_NO == <<"N","o">>
L_SCENE_TYPE == <<"S","C","E","N","E"," ","T","Y","P","E",":"," ">>
L_LOCATION_CONTEXT == <<"L","O","C","A","T","I","O","N"," ","C","O","N","T","E","X","T",":">>
L_NAME == <<"-"," ","N","a","m","e",":"," ">>
L_ROLE == <<"-"," ","R","o","l","e",":"," ">>
L_BASE_DESCRIPTION ==
    <<"-"," ","B","a","s","e"," ","D","e","s","c","r","i","p","t","i","o","n",":"," ">>
L_KNOWN_FOR == <<"-"," ","K","n","o","w","n"," ","F","o","r",":"," ">>
L_TIME == <<"-"," ","T","i","m","e",":"," ">>
L_WEATHER == <<"-"," ","W","e","a","t","h","e","r",":"," ">>
L_CHARACTER_CONTEXT ==
    <<"C","H","A","R","A","C","T","E","R"," ","C","O","N","T","E","X","T",":">>
L_LEVEL == <<"-"," ","L","e","v","e","l",":"," ">>
L_BACKGROUND == <<"-"," ","B","a","c","k","g","r","o","u","n","d",":"," ">>
L_CLASS == <<"-"," ","C","l","a","s","s",":"," ">>
L_WANTED == <<"-"," ","W","a","n","t","e","d","/","H","o","s","t","i","l","e",":"," ">>
L_HOOKS_HEADER ==
    <<"A","V","A","I","L","A","B","L","E"," ","Q","U","E","S","T"," ","H","O","O","K","S"," ",
      "(","w","e","a","v","e"," ","1","-","2"," ","s","u","b","t","l","y"," ","i","n","t","o",
      " ","d","e","s","c","r","i","p","t","i","o","n",")",":">>
L_THREAT_HEADER ==
    <<"T","H","R","E","A","T"," ","C","O","N","T","E","X","T"," ","(","i","n","c","l","u","d",
      "e"," ","1"," ","s","u","b","t","l","e"," ","s","i","g","n",")",":">>
L_ITEM == <<"-"," ">>
L_COLON == <<":"," ">>
L_OPEN == <<" ","(">>
L_CLOSE == <<")">>

\* model id, sampling temperature (in tenths) and token cap of the request
TEMPERATURE_TENTHS == 7

MAX_TOKENS == 300

\* quest_hooks[:2], early_signs[:2], signature_products[:3]
MAX_HOOKS == 2

MAX_SIGNS == 2

MAX_PRODUCTS == 3

(***************************************************************************)
(* build_scene_generator_prompt.                                           *)
(***************************************************************************)
\* the thresholds compared with < instead of <=
ExperienceLevel_Strict(character_level) ==
    IF character_level < 3 THEN INEXPERIENCED
    ELSE IF character_level < 7 THEN SEASONED
    ELSE LEGENDARY

\* experience_level (character_level is an int here)
ExperienceLevel(character_level) ==
    IF character_level <= 3 THEN INEXPERIENCED
    ELSE IF character_level <= 7 THEN SEASONED
    ELSE LEGENDARY

\* one entry of hooks_list
HookLine(hook) ==
    L_ITEM \o Capitalize(Get(hook, "type", DEFAULT_HOOK_TYPE)) \o L_COLON
           \o Get(hook, "description", <<>>)

\* hooks_text
HooksText(quest_hooks) ==
    IF quest_hooks # <<>>
    THEN LET shown == Take(quest_hooks, MAX_HOOKS)
         IN  Join([i \in 1..Len(shown) |-> HookLine(shown[i])], NEWLINE)
    ELSE <<>>

\* products_text without the "various goods" of an empty list
ProductsText_NoDefault(signature_products) ==
    Join(Take(signature_products, MAX_PRODUCTS), PRODUCT_SEP)

\* products_text
ProductsText(signature_products) ==
    IF signature_products # <<>>
    THEN Join(Take(signature_products, MAX_PRODUCTS), PRODUCT_SEP)
    ELSE DEFAULT_PRODUCTS_TEXT

\* the threat lines, chr(10).join(...)
SignsText(early_signs) ==
    IF early_signs # <<>>
    THEN LET shown == Take(early_signs, MAX_SIGNS)
         IN  Join([i \in 1..Len(shown) |-> L_ITEM \o shown[i]], NEWLINE)
    ELSE <<>>

\* the "Wanted/Hostile" substitution
WantedText(is_wanted) == IF is_wanted THEN WANTED_YES ELSE WANTED_NO

\* "character_level <= 3" raises TypeError when the level is None
PromptRaises(character_level) == IsNone(character_level)

\* The rendered template, one element per line of the part of the template
\* that carries substitutions (source lines 173 and 181-200); every other line
\* of the template is fixed text.  A substituted value that holds "\n" stays
\* inside its element.  kw is the record of the keyword arguments.
BuildSceneGeneratorPrompt(kw) ==
    << L_SCENE_TYPE \o kw.scene_type,
       L_LOCATION_CONTEXT,
       L_NAME \o kw.location_name,
       L_ROLE \o kw.location_role,
       L_BASE_DESCRIPTION \o kw.location_summary,
       L_KNOWN_FOR \o ProductsText(kw.signature_products),
       L_TIME \o kw.time_of_day,
       L_WEATHER \o kw.weather,
       <<>>,
       L_CHARACTER_CONTEXT,
       L_NAME \o kw.character_name,
       L_LEVEL \o IntToStr(Value(kw.character_level)) \o L_OPEN
               \o ExperienceLevel(Value(kw.character_level)) \o L_CLOSE,
       L_BACKGROUND \o kw.character_background,
       L_CLASS \o kw.character_class,
       L_WANTED \o WantedText(kw.is_wanted),
       <<>>,
       IF kw.quest_hooks # <<>> THEN L_HOOKS_HEADER ELSE <<>>,
       IF kw.quest_hooks # <<>> THEN HooksText(kw.quest_hooks) ELSE <<>>,
       <<>>,
       IF kw.early_signs # <<>> THEN L_THREAT_HEADER ELSE <<>>,
       SignsText(kw.early_signs) >>

(***************************************************************************)
(* The response split and the two result constructors.                     *)
(***************************************************************************)
\* SceneDescription without the trailing period of line 99
SceneDescription_NoPeriod(generated_text, sentences) ==
    IF Len(sentences) >= 2
    THEN Join(AllButLast(sentences), SENTENCE_SEP)
    ELSE generated_text

\* description of the success branch
SceneDescription(generated_text, sentences) ==
    IF Len(sentences) >= 2
    THEN Join(AllButLast(sentences), SENTENCE_SEP) \o PERIOD
    ELSE generated_text

\* SceneWhyHere without the appended period of lines 101-102
SceneWhyHere_NoPeriod(sentences, location_name) ==
    IF Len(sentences) >= 2
    THEN Strip(Last(sentences))
    ELSE ARRIVE_PREFIX \o location_name \o ARRIVE_SUFFIX

\* why_here of the success branch
SceneWhyHere(sentences, location_name) ==
    IF Len(sentences) >= 2
    THEN LET last == Strip(Last(sentences))
         IN  IF ~EndsWith(last, PERIOD) THEN last \o PERIOD ELSE last
    ELSE ARRIVE_PREFIX \o location_name \o ARRIVE_SUFFIX

\* why_here of the except branch
FallbackWhyHere(location_name) == FALLBACK_PREFIX \o location_name \o FALLBACK_SUFFIX

\* the user message of the request
UserMessage(scene_type, location_name) ==
    USER_PREFIX \o scene_type \o USER_AT \o location_name

(***************************************************************************)
(* Arguments of a call and the behaviour of the external collaborators     *)
(* (get_openai_client, the chat-completion endpoint, logger.info).         *)
(***************************************************************************)
ARRIVAL == <<"a","r","r","i","v","a","l">>

RETURN == <<"r","e","t","u","r","n">>

TRANSITION == <<"t","r","a","n","s","i","t","i","o","n">>

TIME_SKIP == <<"t","i","m","e","_","s","k","i","p">>

SceneTypes == {ARRIVAL, RETURN, TRANSITION, TIME_SKIP}

InName == <<"O","z">>

InRole == <<"p","o","r","t">>

InSummary == <<"D","i","m",".">>

InCharacterName == <<"A","n","n">>

InBackground == <<"s","a","i","l","o","r">>

InClass == <<"b","a","r","d">>

InClassAlt == <<"m","o","n","k">>

InTimeOfDay == <<"d","u","s","k">>

InWeather == <<"r","a","i","n">>

ExampleABC == <<"A","."," ","B","."," ","C",".">>

ExampleOne == <<"O","n","e","S","e","n","t","e","n","c","e","O","n","l","y">>

ExamplePadded ==
    <<" "," ","A"," ","b","a","y","."," "," ","Y","o","u"," ","d","o","c","k","\n">>

\* characters of the returned texts that are enumerated exhaustively
Alphabet == {"A", ".", " ", "\n"}

BoundedSeq(S, n) == UNION {[1..k -> S] : k \in 0..n}

Texts == BoundedSeq(Alphabet, MaxLen) \cup {ExampleABC, ExampleOne, ExamplePadded}

EmptyMap == <<>>

\* m restricted to the keys in K: the other keys are absent
Restrict(m, K) == [k \in K |-> m[k]]

SubMaps(m) == {Restrict(m, K) : K \in SUBSET DOMAIN m}

MinLevel == 0 - 2

Levels == MinLevel..MaxLevel

\* the i-th element of the enumerated lists: a letter and a digit string
Item(letter, i) == <<letter>> \o IntToStr(i)

Items(letter, n) == [i \in 1..n |-> Item(letter, i)]

\* the i-th quest hook: by turns with both keys, without "type", without
\* "description", with neither
HookAt(i) ==
    LET full == [type |-> Item("r", i), description |-> Item("d", i)]
    IN  CASE i % 4 = 1 -> full
          [] i % 4 = 2 -> Restrict(full, {"description"})
          [] i % 4 = 3 -> Restrict(full, {"type"})
          [] OTHER     -> EmptyMap

Hooks(n) == [i \in 1..n |-> HookAt(i)]

FullLocation ==
    [name |-> InName, role |-> InRole, summary |-> InSummary,
     signature_products |-> Items("p", 2)]

FullCharacter ==
    [name |-> InCharacterName, level |-> Some(5), background |-> InBackground,
     class |-> InClass, class_ |-> InClassAlt]

FullWorldState ==
    [time_of_day |-> InTimeOfDay, weather |-> InWeather,
     guards_hostile |-> FALSE, city_hostile |-> TRUE]

FullBlueprint ==
    [global_threat |-> [early_signs_near_starting_town |-> Items("s", 1)]]

\* a completion with one choice whose message content is content (a str or None)
Completion(content) == [choices |-> <<[message |-> [content |-> content]]>>]

RemoteOk(content, info_raises) ==
    [client_raises |-> FALSE, create_raises |-> FALSE,
     completion |-> Completion(content), info_raises |-> info_raises]

ClientRaises == [RemoteOk(None, FALSE) EXCEPT !.client_raises = TRUE]

CreateRaises == [RemoteOk(None, FALSE) EXCEPT !.create_raises = TRUE]

NoChoices == [RemoteOk(None, FALSE) EXCEPT !.completion = [choices |-> <<>>]]

NullContent == RemoteOk(None, FALSE)

RemoteFailures == {ClientRaises, CreateRaises, NoChoices, NullContent}

Call(st, loc, cs, ws, wb, hooks, rem) ==
    [scene_type |-> st, location |-> loc, character_state |-> cs, world_state |-> ws,
     world_blueprint |-> wb, available_quest_hooks |-> hooks, remote |-> rem]

\* every remote outcome, with the location's name and summary absent, empty or set
ResponseCalls ==
    { Call(ARRIVAL, loc, EmptyMap, EmptyMap, EmptyMap, None, rem) :
        loc \in { Restrict([name |-> n, summary |-> s], K) :
                    n \in {<<>>, InName}, s \in {<<>>, InSummary},
                    K \in SUBSET {"name", "summary"} },
        rem \in RemoteFailures
                  \cup {RemoteOk(Some(t), b) : t \in Texts, b \in BOOLEAN} }

\* quest hooks omitted, empty or given; the threat mapping absent, empty or given
HookChoices == {None, Some(<<>>), Some(Hooks(2)), Some(<<HookAt(3), HookAt(4), HookAt(1)>>)}

BlueprintChoices == SubMaps(FullBlueprint) \cup {[global_threat |-> EmptyMap]}

\* every subset of the keys of location and of world_state together, and every
\* subset of the keys of character_state, the other mappings empty or full
DefaultCalls ==
    { Call(RETURN, loc, cs, ws, wb, hooks, RemoteOk(Some(ExampleABC), FALSE)) :
        loc \in SubMaps(FullLocation), cs \in {EmptyMap, FullCharacter},
        ws \in SubMaps(FullWorldState), wb \in BlueprintChoices, hooks \in HookChoices }
    \cup
    { Call(RETURN, loc, cs, ws, wb, hooks, RemoteOk(Some(ExampleABC), FALSE)) :
        loc \in {EmptyMap, FullLocation}, cs \in SubMaps(FullCharacter),
        ws \in {EmptyMap, FullWorldState}, wb \in BlueprintChoices, hooks \in HookChoices }

\* every level (an int, None or absent) and every setting of the two flags
TierCalls ==
    { Call(st, FullLocation, cs, ws, FullBlueprint, None, rem) :
        st \in {TRANSITION},
        cs \in {Restrict(FullCharacter, {"name"})}
                 \cup {[FullCharacter EXCEPT !.level = lv] :
                         lv \in {None} \cup {Some(n) : n \in Levels}},
        ws \in UNION {SubMaps([guards_hostile |-> g, city_hostile |-> c]) :
                        g \in BOOLEAN, c \in BOOLEAN},
        rem \in {CreateRaises, RemoteOk(Some(ExampleOne), FALSE)} }

\* lists of every length up to MaxList
ListCalls ==
    { Call(st, [FullLocation EXCEPT !.signature_products = Items("p", np)],
           FullCharacter, FullWorldState,
           [global_threat |-> [early_signs_near_starting_town |-> Items("s", ns)]],
           Some(Hooks(nh)), rem) :
        st \in SceneTypes, np \in 0..MaxList, ns \in 0..MaxList, nh \in 0..MaxList,
        rem \in {RemoteOk(Some(ExamplePadded), FALSE)} }

Calls == ResponseCalls \cup DefaultCalls \cup TierCalls \cup ListCalls

(***************************************************************************)
(* State: the arguments, the collaborators' behaviour, the locals of        *)
(* generate_scene_description, the requests sent, the log entries written,  *)
(* the returned dict and the position in the function.                      *)
(***************************************************************************)
VARIABLES scene_type, location, character_state, world_state, world_blueprint,
          available_quest_hooks, remote,
          quest_hooks, location_name, location_role, location_summary,
          signature_products, character_name, character_level, character_background,
          character_class, time_of_day, weather, reputation, is_wanted, global_threat,
          early_signs, prompt,
          generated_text, sentences, description, why_here,
          requests, log, result, pc

argVars ==
    <<scene_type, location, character_state, world_state, world_blueprint,
      available_quest_hooks, remote>>

extractVars ==
    <<quest_hooks, location_name, location_role, location_summary, signature_products,
      character_name, character_level, character_background, character_class,
      time_of_day, weather, reputation, is_wanted, global_threat, early_signs>>

parseVars == <<sentences, description, why_here>>

vars ==
    <<argVars, extractVars, prompt, generated_text, parseVars, requests, log, result, pc>>

EmptyResult == [location |-> <<>>, description |-> <<>>, why_here |-> <<>>]

Init ==
    /\ \E c \in Calls :
        /\ scene_type = c.scene_type
        /\ location = c.location
        /\ character_state = c.character_state
        /\ world_state = c.world_state
        /\ world_blueprint = c.world_blueprint
        /\ available_quest_hooks = c.available_quest_hooks
        /\ remote = c.remote
    /\ quest_hooks = <<>>
    /\ location_name = <<>>
    /\ location_role = <<>>
    /\ location_summary = <<>>
    /\ signature_products = <<>>
    /\ character_name = <<>>
    /\ character_level = None
    /\ character_background = <<>>
    /\ character_class = <<>>
    /\ time_of_day = <<>>
    /\ weather = <<>>
    /\ reputation = EmptyMap
    /\ is_wanted = FALSE
    /\ global_threat = EmptyMap
    /\ early_signs = <<>>
    /\ prompt = <<>>
    /\ generated_text = <<>>
    /\ sentences = <<>>
    /\ description = <<>>
    /\ why_here = <<>>
    /\ requests = <<>>
    /\ log = <<>>
    /\ result = EmptyResult
    /\ pc = "start"

\* the two flags combined with "and"
IsWanted_And(ws) == Get(ws, "guards_hostile", FALSE) /\ Get(ws, "city_hostile", FALSE)

\* is_wanted: "or" of the two flags, each False when absent
IsWanted(ws) == Get(ws, "guards_hostile", FALSE) \/ Get(ws, "city_hostile", FALSE)

\* "if not available_quest_hooks: available_quest_hooks = []"
NormalizeHooks(hooks) ==
    IF IsNone(hooks) THEN <<>> ELSE IF Value(hooks) = <<>> THEN <<>> ELSE Value(hooks)

\* lines 35-57: defaults for the absent fields and the two derived values
Extract ==
    /\ pc = "start"
    /\ quest_hooks' = NormalizeHooks(available_quest_hooks)
    /\ location_name' = Get(location, "name", DEFAULT_NAME)
    /\ location_role' = Get(location, "role", DEFAULT_ROLE)
    /\ location_summary' = Get(location, "summary", DEFAULT_SUMMARY)
    /\ signature_products' = Get(location, "signature_products", <<>>)
    /\ character_name' = Get(character_state, "name", DEFAULT_CHARACTER_NAME)
    /\ character_level' = Get(character_state, "level", Some(1))
    /\ character_background' = Get(character_state, "background", DEFAULT_BACKGROUND)
    /\ character_class' =
           Get(character_state, "class", Get(character_state, "class_", DEFAULT_CLASS))
    /\ time_of_day' = Get(world_state, "time_of_day", DEFAULT_TIME_OF_DAY)
    /\ weather' = Get(world_state, "weather", DEFAULT_WEATHER)
    /\ reputation' = Get(character_state, "reputation", EmptyMap)
    /\ is_wanted' = IsWanted(world_state)
    /\ global_threat' = Get(world_blueprint, "global_threat", EmptyMap)
    /\ early_signs' = Get(global_threat', "early_signs_near_starting_town", <<>>)
    /\ pc' = "build"
    /\ UNCHANGED <<argVars, prompt, generated_text, parseVars, requests, log, result>>

\* the keyword arguments of lines 60-76
PromptArguments ==
    [scene_type |-> scene_type, location_name |-> location_name,
     location_role |-> location_role, location_summary |-> location_summary,
     signature_products |-> signature_products, character_name |-> character_name,
     character_level |-> character_level, character_background |-> character_background,
     character_class |-> character_class, time_of_day |-> time_of_day,
     weather |-> weather, is_wanted |-> is_wanted, reputation |-> reputation,
     early_signs |-> early_signs, quest_hooks |-> quest_hooks]

\* lines 60-76: the prompt is built, outside the try block
BuildPrompt ==
    /\ pc = "build"
    /\ ~PromptRaises(character_level)
    /\ prompt' = BuildSceneGeneratorPrompt(PromptArguments)
    /\ pc' = "try"
    /\ UNCHANGED <<argVars, extractVars, generated_text, parseVars, requests, log, result>>

\* line 146 raises outside the try block: the exception reaches the caller
BuildPromptRaises ==
    /\ pc = "build"
    /\ PromptRaises(character_level)
    /\ pc' = "raised"
    /\ UNCHANGED <<argVars, extractVars, prompt, generated_text, parseVars, requests,
                   log, result>>

\* line 79, get_openai_client() returns a client
GetClient ==
    /\ pc = "try"
    /\ ~remote.client_raises
    /\ pc' = "create"
    /\ UNCHANGED <<argVars, extractVars, prompt, generated_text, parseVars, requests,
                   log, result>>

\* line 79, get_openai_client() raises
GetClientRaises ==
    /\ pc = "try"
    /\ remote.client_raises
    /\ pc' = "except"
    /\ UNCHANGED <<argVars, extractVars, prompt, generated_text, parseVars, requests,
                   log, result>>

\* the request of lines 80-88
Request ==
    [model |-> MODEL_NAME,
     messages |-> << [role |-> "system", content |-> prompt],
                     [role |-> "user", content |-> UserMessage(scene_type, location_name)] >>,
     temperature_tenths |-> TEMPERATURE_TENTHS,
     max_tokens |-> MAX_TOKENS]

\* lines 80-88, the request is sent and a completion comes back
CreateCompletion ==
    /\ pc = "create"
    /\ ~remote.create_raises
    /\ requests' = Append(requests, Request)
    /\ pc' = "read"
    /\ UNCHANGED <<argVars, extractVars, prompt, generated_text, parseVars, log, result>>

\* a failed request that is sent once more before the handler runs
CreateCompletionRaises_Retry ==
    /\ pc = "create"
    /\ remote.create_raises
    /\ requests' = Append(requests, Request)
    /\ pc' = IF Len(requests) = 0 THEN "create" ELSE "except"
    /\ UNCHANGED <<argVars, extractVars, prompt, generated_text, parseVars, log, result>>

\* lines 80-88, the request is sent and raises
CreateCompletionRaises ==
    /\ pc = "create"
    /\ remote.create_raises
    /\ requests' = Append(requests, Request)
    /\ pc' = "except"
    /\ UNCHANGED <<argVars, extractVars, prompt, generated_text, parseVars, log, result>>

\* choices[0] raises IndexError, None.strip() raises AttributeError
ContentRaises(completion) ==
    IF completion.choices = <<>> THEN TRUE
    ELSE IsNone(completion.choices[1].message.content)

\* line 90
ReadContent ==
    /\ pc = "read"
    /\ ~ContentRaises(remote.completion)
    /\ generated_text' = Strip(Value(remote.completion.choices[1].message.content))
    /\ pc' = "parse"
    /\ UNCHANGED <<argVars, extractVars, prompt, parseVars, requests, log, result>>

\* line 90 raises
ReadContentRaises ==
    /\ pc = "read"
    /\ ContentRaises(remote.completion)
    /\ pc' = "except"
    /\ UNCHANGED <<argVars, extractVars, prompt, generated_text, parseVars, requests,
                   log, result>>

\* lines 95-106
ParseScene ==
    /\ pc = "parse"
    /\ sentences' = Split(generated_text, SENTENCE_SEP)
    /\ description' = SceneDescription(generated_text, sentences')
    /\ why_here' = SceneWhyHere(sentences', location_name)
    /\ pc' = "log"
    /\ UNCHANGED <<argVars, extractVars, prompt, generated_text, requests, log, result>>

\* the dict of lines 110-114
SuccessResult ==
    [location |-> location_name, description |-> description, why_here |-> why_here]

\* lines 108-114
ReturnScene ==
    /\ pc = "log"
    /\ ~remote.info_raises
    /\ log' = Append(log, "info")
    /\ result' = SuccessResult
    /\ pc' = "returned"
    /\ UNCHANGED <<argVars, extractVars, prompt, generated_text, parseVars, requests>>

\* line 108 raises inside the try block, after the split
LogInfoRaises ==
    /\ pc = "log"
    /\ remote.info_raises
    /\ pc' = "except"
    /\ UNCHANGED <<argVars, extractVars, prompt, generated_text, parseVars, requests,
                   log, result>>

\* FallbackResult that always describes with the default summary
FallbackResult_DefaultSummary ==
    [location |-> location_name, description |-> DEFAULT_SUMMARY,
     why_here |-> FallbackWhyHere(location_name)]

\* FallbackResult that keeps a description already computed in the try block
FallbackResult_KeepsDescription ==
    [location |-> location_name,
     description |-> IF description # <<>> THEN description ELSE location_summary,
     why_here |-> FallbackWhyHere(location_name)]

\* the dict of lines 119-123
FallbackResult ==
    [location |-> location_name, description |-> location_summary,
     why_here |-> FallbackWhyHere(location_name)]

\* lines 116-123
Fallback ==
    /\ pc = "except"
    /\ log' = Append(log, "error")
    /\ result' = FallbackResult
    /\ pc' = "returned"
    /\ UNCHANGED <<argVars, extractVars, prompt, generated_text, parseVars, requests>>

Next ==
    \/ Extract
    \/ BuildPrompt
    \/ BuildPromptRaises
    \/ GetClient
    \/ GetClientRaises
    \/ CreateCompletion
    \/ CreateCompletionRaises
    \/ ReadContent
    \/ ReadContentRaises
    \/ ParseScene
    \/ ReturnScene
    \/ LogInfoRaises
    \/ Fallback

Spec == Init /\ [][Next]_vars

(***************************************************************************)
(* Properties.  The definitions below restate what a property expects from *)
(* the arguments and the returned text alone.                              *)
(***************************************************************************)
\* the name and the summary a caller passed, or the documented defaults
GivenName == IF "name" \in DOMAIN location THEN location["name"] ELSE DEFAULT_NAME

GivenSummary == IF "summary" \in DOMAIN location THEN location["summary"] ELSE DEFAULT_SUMMARY

\* s without its leading and trailing blanks: from the first to the last
\* character that is not white space
Trimmed(s) ==
    LET solid == {i \in 1..Len(s) : s[i] \notin {" ", "\n", "\t", "\r"}}
    IN  IF solid = {} THEN <<>>
        ELSE SubSeq(s, CHOOSE i \in solid : \A j \in solid : i <= j,
                       CHOOSE i \in solid : \A j \in solid : j <= i)

\* s, with a period added when its last character is not one
PeriodTerminated(s) == IF s # <<>> /\ s[Len(s)] = "." THEN s ELSE s \o <<".">>

\* the offsets in s of the separator: a period followed by a space
Separators(s) == {i \in 1..(Len(s) - 1) : s[i] = "." /\ s[i + 1] = " "}

Returned == pc = "returned"

ReturnedScene == pc = "returned" /\ log = <<"info">>

ReturnedFallback == pc = "returned" /\ log = <<"error">>

\* the remote step failed: no client, the request raised, no choices, null content
RemoteStepFails ==
    \/ remote.client_raises
    \/ remote.create_raises
    \/ remote.completion.choices = <<>>
    \/ remote.completion = Completion(None)

\* the returned text, when the remote step succeeds
ReturnedText == Value(remote.completion.choices[1].message.content)

\* the complete fallback, from the arguments
GivenFallback ==
    [location |-> GivenName, description |-> GivenSummary,
     why_here |-> FALLBACK_PREFIX \o GivenName \o FALLBACK_SUFFIX]

\* C1: on every return path (split into two or more pieces, fewer than two
\* pieces, exception fallback) the why_here of the returned dict ends with a
\* period.
C1_WhyHereEndsWithPeriod ==
    Returned => /\ Len(result.why_here) > 0
                /\ result.why_here[Len(result.why_here)] = "."

\* C1 witness: a scene returned from a text of two or more pieces whose last
\* piece had no period of its own.
C1_Witness ==
    /\ ReturnedScene
    /\ Len(sentences) >= 2
    /\ Last(sentences)[Len(Last(sentences))] # "."
    /\ result.why_here = Last(sentences) \o <<".">>

\* C2: every returned dict has a non-empty location and a non-empty
\* description, whatever the arguments and the remote outcome.
C2_FieldsNonEmpty ==
    Returned => result.location # <<>> /\ result.description # <<>>

\* a step taken inside the try block or its handler does not end in "raised"
NoRaiseFromTry ==
    (pc \in {"try", "create", "read", "parse", "log", "except"}) => (pc' # "raised")

\* C3: when the remote step fails the call does not raise and returns exactly
\* the fallback: the location name, the location's summary (or "A mysterious
\* place" when absent) and the fixed sentence holding the name.  No step from
\* inside the try block leads to an exception at the caller.
C3_FailureReturnsFallback ==
    /\ [](Returned /\ RemoteStepFails => result = GivenFallback /\ log = <<"error">>)
    /\ [][NoRaiseFromTry]_vars

\* C3 witness: the fallback returned after a response without choices, for a
\* location that has a name and no summary.
C3_Witness ==
    /\ Returned
    /\ remote = NoChoices
    /\ DOMAIN location = {"name"}
    /\ result.description = DEFAULT_SUMMARY

\* C4: the returned dict is never a mix: description and why_here are both the
\* values computed from the returned text, or both the fallback values; an
\* exception raised after the description was computed still returns the
\* complete fallback.
C4_NeverAMix ==
    Returned =>
        \/ /\ ReturnedScene
           /\ ~RemoteStepFails /\ ~remote.info_raises
           /\ result.description = description
           /\ result.why_here = why_here
           /\ sentences # <<>>
        \/ /\ ReturnedFallback
           /\ RemoteStepFails \/ remote.info_raises
           /\ result.description = GivenSummary
           /\ result.why_here = FALLBACK_PREFIX \o GivenName \o FALLBACK_SUFFIX

\* C4 witness: the fallback returned although a description, different from
\* the summary, had been computed from the returned text.
C4_Witness ==
    /\ ReturnedFallback
    /\ remote.info_raises
    /\ description # <<>>
    /\ description # result.description
    /\ why_here # result.why_here

\* the two messages the claim expects in the request, from the arguments
GivenMessages ==
    << [role |-> "system", content |-> prompt],
       [role |-> "user",
        content |-> USER_PREFIX \o scene_type \o USER_AT \o GivenName] >>

\* a failed request is followed by the handler, and the handler by the return
\* of the fallback, without another request
NoRetry ==
    /\ (pc = "create" /\ remote.create_raises) => (pc' = "except" /\ Len(requests') = 1)
    /\ (pc = "except") =>
           (pc' = "returned" /\ result' = GivenFallback /\ requests' = requests)

\* C5 as stated: every invocation that returns has issued one outbound call.
C5_OneCallPerInvocation == Returned => Len(requests) = 1

\* C5 amended: an invocation issues at most one outbound call, exactly one
\* when get_openai_client returned a client and none when it raised; a failed
\* call is not retried, the next outcome is the fallback return; the call
\* carries exactly two messages, the rendered prompt as system message and the
\* string naming scene type and location name as user message.
C5_AtMostOneCallNoRetry ==
    /\ [](/\ Len(requests) <= 1
          /\ Returned => (Len(requests) = 1 <=> ~remote.client_raises)
          /\ \A i \in DOMAIN requests :
                /\ requests[i].messages = GivenMessages
                /\ prompt # <<>>)
    /\ [][NoRetry]_vars

\* C5 witness: the fallback returned after the one request raised.
C5_Witness ==
    /\ ReturnedFallback
    /\ remote.create_raises
    /\ Len(requests) = 1
    /\ Len(requests[1].messages) = 2

\* the pieces joined by the separator ". "
RECURSIVE Glued(_)
Glued(pieces) ==
    IF Len(pieces) = 1 THEN pieces[1]
    ELSE pieces[1] \o <<".", " ">> \o Glued(Tail(pieces))

\* pieces are the split of text at every ". ": glued they give the text back,
\* and no piece holds a separator
IsSplitOf(pieces, text) ==
    /\ pieces # <<>>
    /\ Glued(pieces) = text
    /\ \A k \in DOMAIN pieces : Separators(pieces[k]) = {}

\* C6: on success, when the stripped text splits on ". " into two or more
\* pieces, description is all pieces but the last rejoined with ". " plus a
\* period, and why_here is the last piece trimmed, a period appended only when
\* it has none; "A. B. C." gives "A. B." and "C.".
C6_SplitTwoOrMore ==
    (ReturnedScene /\ Separators(Trimmed(ReturnedText)) # {}) =>
        /\ IsSplitOf(sentences, Trimmed(ReturnedText))
        /\ Len(sentences) >= 2
        /\ result.description = Glued(SubSeq(sentences, 1, Len(sentences) - 1)) \o <<".">>
        /\ result.why_here = PeriodTerminated(Trimmed(sentences[Len(sentences)]))
        /\ ReturnedText = ExampleABC =>
              /\ result.description = <<"A", ".", " ", "B", ".">>
              /\ result.why_here = <<"C", ".">>

\* C6 witness: the scene returned for "A. B. C.".
C6_Witness ==
    /\ ReturnedScene
    /\ ReturnedText = ExampleABC
    /\ Len(sentences) = 3
    /\ result.why_here = <<"C", ".">>

\* C7: on success, when the stripped text holds no ". ", description is the
\* whole stripped text and why_here is "You arrive in <location_name>, ready
\* for whatever awaits."
C7_SingleSentence ==
    (ReturnedScene /\ Separators(Trimmed(ReturnedText)) = {}) =>
        /\ Len(sentences) < 2
        /\ result.description = Trimmed(ReturnedText)
        /\ result.why_here = ARRIVE_PREFIX \o GivenName \o ARRIVE_SUFFIX

\* C7 witness: the scene returned for a text with periods and blanks but no
\* period followed by a space.
C7_Witness ==
    /\ ReturnedScene
    /\ ReturnedText = <<" ", "A", ".", "\n">>
    /\ result.description = <<"A", ".">>
    /\ "name" \in DOMAIN location

Absent(m, key) == key \notin DOMAIN m

Extracted == pc # "start"

PromptBuilt == pc \notin {"start", "build", "raised"}

\* the early signs a caller passed: none when either level of the mapping is absent
GivenSigns ==
    IF Absent(world_blueprint, "global_threat") THEN <<>>
    ELSE IF Absent(world_blueprint["global_threat"], "early_signs_near_starting_town")
         THEN <<>>
         ELSE world_blueprint["global_threat"]["early_signs_near_starting_town"]

\* the quest hooks a caller passed: none when omitted
GivenHooks == IF available_quest_hooks = <<>> THEN <<>> ELSE available_quest_hooks[1]

\* the prompt line expected for one hook: "conversation" for a missing type,
\* nothing for a missing description
GivenHookLine(hook) ==
    <<"-", " ">>
        \o (IF Absent(hook, "type") THEN <<"C","o","n","v","e","r","s","a","t","i","o","n">>
            ELSE Capitalize(hook["type"]))
        \o <<":", " ">>
        \o (IF Absent(hook, "description") THEN <<>> ELSE hook["description"])

\* line is one of the rendered template lines
Rendered(line) == \E i \in DOMAIN prompt : prompt[i] = line

\* text occurs in one of the rendered template lines as a run of whole text lines
RenderedWithin(text) ==
    \E i \in DOMAIN prompt :
        \/ prompt[i] = text
        \/ \E k \in 1..Len(prompt[i]) :
              /\ prompt[i][k] = "\n"
              /\ \/ SubSeq(prompt[i], 1, k - 1) = text
                 \/ SubSeq(prompt[i], k + 1, Len(prompt[i])) = text

\* C8: whatever subset of the optional fields is absent (quest hooks omitted
\* or empty, hooks without type or description), the call does not raise and
\* the literal defaults apply: name "Unknown", summary "A mysterious place",
\* time_of_day "midday", weather "clear", level 1, empty lists for signature
\* products and early signs, products_text "various goods" for an empty list.
C8_DefaultsForAbsentFields ==
    /\ pc = "raised" => ~Absent(character_state, "level")
    /\ Extracted =>
        /\ Absent(location, "name") => location_name = <<"U","n","k","n","o","w","n">>
        /\ Absent(location, "summary") => location_summary = DEFAULT_SUMMARY
        /\ Absent(world_state, "time_of_day") => time_of_day = <<"m","i","d","d","a","y">>
        /\ Absent(world_state, "weather") => weather = <<"c","l","e","a","r">>
        /\ Absent(character_state, "level") => character_level = <<1>>
        /\ Absent(location, "signature_products") => signature_products = <<>>
        /\ GivenSigns = <<>> => early_signs = <<>>
        /\ GivenHooks = <<>> => quest_hooks = <<>>
    /\ PromptBuilt =>
        /\ (Absent(location, "signature_products") \/ signature_products = <<>>)
              => Rendered(L_KNOWN_FOR \o DEFAULT_PRODUCTS_TEXT)
        /\ Absent(location, "name") => Rendered(L_NAME \o DEFAULT_NAME)
        /\ Absent(location, "summary") => Rendered(L_BASE_DESCRIPTION \o DEFAULT_SUMMARY)
        /\ Absent(world_state, "time_of_day") => Rendered(L_TIME \o DEFAULT_TIME_OF_DAY)
        /\ Absent(world_state, "weather") => Rendered(L_WEATHER \o DEFAULT_WEATHER)
        /\ Absent(character_state, "level")
              => Rendered(L_LEVEL \o <<"1">> \o L_OPEN \o INEXPERIENCED \o L_CLOSE)
        /\ GivenHooks = <<>> => ~Rendered(L_HOOKS_HEADER)
        /\ GivenSigns = <<>> => ~Rendered(L_THREAT_HEADER)
        /\ \A i \in DOMAIN GivenHooks :
              i <= 2 => RenderedWithin(GivenHookLine(GivenHooks[i]))
    /\ Returned => result.location = GivenName

\* C8 witness: a scene returned for a call with four empty mappings and the
\* quest hooks omitted.
C8_Witness ==
    /\ ReturnedScene
    /\ location = EmptyMap /\ character_state = EmptyMap
    /\ world_state = EmptyMap /\ world_blueprint = EmptyMap
    /\ available_quest_hooks = None
    /\ scene_type = RETURN
    /\ result.location = DEFAULT_NAME

\* the level a caller passed, when it is an int
GivenIntLevel == ~Absent(character_state, "level") /\ character_state["level"] # <<>>

\* the tier the claim gives a level
GivenTier(n) ==
    CASE n <= 3            -> <<"i","n","e","x","p","e","r","i","e","n","c","e","d">>
      [] n >= 4 /\ n <= 7  -> <<"s","e","a","s","o","n","e","d">>
      [] n >= 8            -> <<"l","e","g","e","n","d","a","r","y">>

\* C9: for every integer level the tier rendered in the prompt is
\* "inexperienced" for level <= 3, "seasoned" for 4..7 and "legendary" for
\* level >= 8 (3 and 4, 7 and 8 fall on either side of the two thresholds).
C9_ExperienceTier ==
    (PromptBuilt /\ GivenIntLevel) =>
        LET n == character_state["level"][1]
        IN  /\ Rendered(L_LEVEL \o IntToStr(n) \o <<" ", "(">> \o GivenTier(n) \o <<")">>)
            /\ \A m \in {GivenTier(3), GivenTier(4), GivenTier(8)} :
                  m # GivenTier(n) =>
                     ~Rendered(L_LEVEL \o IntToStr(n) \o <<" ", "(">> \o m \o <<")">>)

\* C9 witness: the prompt of a level-4 character is built and reads "seasoned".
C9_Witness ==
    /\ PromptBuilt
    /\ GivenIntLevel
    /\ character_state["level"] = <<4>>
    /\ Rendered(L_LEVEL \o <<"4", " ", "(">> \o SEASONED \o <<")">>)

\* the flag is present and true
FlagSet(ws, key) == IF Absent(ws, key) THEN FALSE ELSE ws[key]

\* C10: is_wanted is true when at least one of guards_hostile and
\* city_hostile is true, false when both are false or absent; the prompt
\* shows "YES - guards watching" exactly when is_wanted is true, "No" otherwise.
C10_WantedFlag ==
    /\ Extracted =>
          (is_wanted <=> (FlagSet(world_state, "guards_hostile")
                            \/ FlagSet(world_state, "city_hostile")))
    /\ PromptBuilt =>
          /\ Rendered(L_WANTED \o WANTED_YES) <=> is_wanted
          /\ Rendered(L_WANTED \o WANTED_NO) <=> ~is_wanted

\* C10 witness: guards_hostile absent, city_hostile true, the marker rendered.
C10_Witness ==
    /\ PromptBuilt
    /\ Absent(world_state, "guards_hostile")
    /\ FlagSet(world_state, "city_hostile")
    /\ is_wanted
    /\ Rendered(<<"-"," ","W","a","n","t","e","d","/","H","o","s","t","i","l","e",":"," ",
                  "Y","E","S"," ","-"," ","g","u","a","r","d","s"," ",
                  "w","a","t","c","h","i","n","g">>)

\* the signature products a caller passed: none when absent
GivenProducts ==
    IF Absent(location, "signature_products") THEN <<>> ELSE location["signature_products"]

\* the first n entries of list, all of them when it has no more than n
FirstOf(list, n) == [i \in 1..(IF Len(list) <= n THEN Len(list) ELSE n) |-> list[i]]

\* the pieces put one after the other with sep between two neighbours
RECURSIVE GluedBy(_, _)
GluedBy(pieces, sep) ==
    IF Len(pieces) = 1 THEN pieces[1]
    ELSE pieces[1] \o sep \o GluedBy(Tail(pieces), sep)

\* text occurs somewhere in the rendered template lines
Occurs(text, line) ==
    \E k \in 1..(Len(line) - Len(text) + 1) : SubSeq(line, k, k + Len(text) - 1) = text

AppearsInPrompt(text) == \E i \in DOMAIN prompt : Occurs(text, prompt[i])

\* C11: in the rendered prompt a list of quest hooks or of early signs
\* contributes its first 2 entries in order and a list of signature products
\* its first 3; a list at or below the limit is rendered in full, and no entry
\* beyond the limit appears anywhere in the prompt.
C11_ListsTruncated ==
    PromptBuilt =>
        /\ GivenProducts # <<>> =>
              /\ Rendered(<<"-"," ","K","n","o","w","n"," ","F","o","r",":"," ">>
                             \o GluedBy(FirstOf(GivenProducts, 3), <<",", " ">>))
              /\ \A i \in DOMAIN GivenProducts :
                    AppearsInPrompt(GivenProducts[i]) <=> i <= 3
        /\ GivenSigns # <<>> =>
              /\ Rendered(GluedBy([i \in DOMAIN FirstOf(GivenSigns, 2) |->
                                      <<"-", " ">> \o GivenSigns[i]], <<"\n">>))
              /\ \A i \in DOMAIN GivenSigns :
                    AppearsInPrompt(GivenSigns[i]) <=> i <= 2
        /\ GivenHooks # <<>> =>
              /\ Rendered(GluedBy([i \in DOMAIN FirstOf(GivenHooks, 2) |->
                                      GivenHookLine(GivenHooks[i])], <<"\n">>))
              /\ \A i \in DOMAIN GivenHooks :
                    (i > 2 /\ ~Absent(GivenHooks[i], "type"))
                        => ~AppearsInPrompt(Capitalize(GivenHooks[i]["type"]))
              /\ \A i \in DOMAIN GivenHooks :
                    (i > 2 /\ ~Absent(GivenHooks[i], "description"))
                        => ~AppearsInPrompt(GivenHooks[i]["description"])

\* C11 witness: a prompt built from four products, three early signs and
\* three quest hooks, showing "p1, p2, p3" and the signs "s1" and "s2".
C11_Witness ==
    /\ PromptBuilt
    /\ Len(GivenProducts) = 4 /\ Len(GivenSigns) = 3 /\ Len(GivenHooks) = 3
    /\ Rendered(L_KNOWN_FOR \o <<"p","1",","," ","p","2",","," ","p","3">>)
    /\ Rendered(<<"-"," ","s","1","\n","-"," ","s","2">>)
    /\ ~AppearsInPrompt(<<"p","4">>)

\* the last offset in s of the separator ". " (s holds one)
LastSeparator(s) == CHOOSE i \in Separators(s) : \A j \in Separators(s) : j <= i

\* what follows the last separator of s, blanks included
AfterLastSeparator(s) == SubSeq(s, LastSeparator(s) + 2, Len(s))

\* C12: the split loses no text.  On success with two or more pieces,
\* description, one space and the untrimmed last piece give back the stripped
\* text exactly; why_here is that last piece with its surrounding blanks
\* removed and at most one period appended, so it is never empty.
C12_SplitLosesNoText ==
    (ReturnedScene /\ Separators(Trimmed(ReturnedText)) # {}) =>
        LET text == Trimmed(ReturnedText)
            last == AfterLastSeparator(text)
        IN  /\ result.description \o <<" ">> \o last = text
            /\ \/ result.why_here = Trimmed(last)
               \/ result.why_here = Trimmed(last) \o <<".">>
            /\ result.why_here # <<>>
            /\ Trimmed(last) # <<>>

\* C12 witness: the scene returned for "  A bay.  You dock\n": the last piece
\* " You dock" starts with a blank and has no period of its own.
C12_Witness ==
    /\ ReturnedScene
    /\ ReturnedText = ExamplePadded
    /\ result.description = <<"A", " ", "b", "a", "y", ".">>
    /\ AfterLastSeparator(Trimmed(ReturnedText)) = <<" ", "Y", "o", "u", " ", "d", "o", "c", "k">>
    /\ result.why_here = <<"Y", "o", "u", " ", "d", "o", "c", "k", ".">>

====
